---- MODULE Spec2Model ----
(***************************************************************************)
(* A model of mssql-browser, a client of the SQL Server Resolution         *)
(* Protocol: the instance-record parser (info.rs), the single-instance     *)
(* query (browse_instance.rs) and the DAC query (browse_instance_dac.rs).  *)
(*                                                                         *)
(* Text is modelled as the sequence of its UTF-8 bytes (0..255): the       *)
(* parser splits on the one-byte characters ';' ',' ':' and measures       *)
(* lengths in bytes, so a &str and its bytes carry the same information.   *)
(***************************************************************************)
EXTENDS Integers, Sequences, FiniteSets, TLC

VARIABLES
    op,             \* which entry point runs: "instance", "dac" or "parse"
    remote_addr,    \* argument remote_addr / addr
    instance_name,  \* argument instance_name (bytes)
    pc,             \* the suspension point the async fn is at
    calls,          \* transport calls issued so far, in order, with arguments
    datagram,       \* the bytes recv wrote into the receive buffer
    result,         \* what the query returned (or Pending, or a panic)
    shape,          \* description of the text handed to the parser
    string,         \* argument string of parse_instance_info
    parsed,         \* what parse_instance_info returned (or NotParsed)
    offset,         \* where in string the text handed to the parser starts
    yielded         \* the records obtained before, in order

vars == <<op, remote_addr, instance_name, pc, calls, datagram, result,
          shape, string, parsed, offset, yielded>>

(***************************************************************************)
(* Program constants                                                       *)
(***************************************************************************)
MAX_INSTANCE_NAME_LEN == 32
CLNT_UCAST_INST == 4
CLNT_UCAST_DAC == 15
SVR_RESP == 5
VERSION == 1
BROWSER_PORT == 1434
INSTANCE_RECV_BUFFER_LEN == 3 + 1024
DAC_RECV_BUFFER_LEN == 6
U16_MAX == 65535

SEMICOLON == 59
COMMA == 44
COLON == 58
PLUS == 43
MINUS == 45
DIGIT_0 == 48
DIGIT_9 == 57

LitServerName == <<83, 101, 114, 118, 101, 114, 78, 97, 109, 101>>
LitInstanceName == <<73, 110, 115, 116, 97, 110, 99, 101, 78, 97, 109, 101>>
LitIsClustered == <<73, 115, 67, 108, 117, 115, 116, 101, 114, 101, 100>>
LitVersion == <<86, 101, 114, 115, 105, 111, 110>>
LitYes == <<89, 101, 115>>
LitNo == <<78, 111>>
LitNp == <<110, 112>>
LitTcp == <<116, 99, 112>>
LitVia == <<118, 105, 97>>
LitRpc == <<114, 112, 99>>
LitSpx == <<115, 112, 120>>
LitAdsp == <<97, 100, 115, 112>>
LitBv == <<98, 118>>

(***************************************************************************)
(* error.rs: the error taxonomy                                            *)
(***************************************************************************)
EndOfMessage == [tok |-> "EndOfMessage"]
Literal(s) == [tok |-> "Literal", s |-> s]
MessageIdentifier(v) == [tok |-> "MessageIdentifier", v |-> v]
MessageLength == [tok |-> "MessageLength"]
DacVersion(v) == [tok |-> "DacVersion", v |-> v]
DacPort == [tok |-> "DacPort"]
Identifier(field) == [tok |-> "Identifier", field |-> field]
ValueOf(field) == [tok |-> "ValueOf", field |-> field]
TcpPort == [tok |-> "TcpPort"]
ViaParameters == [tok |-> "ViaParameters"]
EndpointIdentifierOrSemicolon == [tok |-> "EndpointIdentifierOrSemicolon"]

UnexpectedToken(expected, found) ==
    [kind |-> "UnexpectedToken", expected |-> expected, found |-> found]
LengthMismatch(dgram, header) ==
    [kind |-> "LengthMismatch", datagram |-> dgram, header |-> header]
ExtraneousData(bytes) == [kind |-> "ExtraneousData", data |-> bytes]
InvalidUtf8 == [kind |-> "InvalidUtf8"]

BindFailed(e) == [kind |-> "BindFailed", err |-> e]
ConnectFailed(addr, e) == [kind |-> "ConnectFailed", addr |-> addr, err |-> e]
SendFailed(addr, e) == [kind |-> "SendFailed", addr |-> addr, err |-> e]
ReceiveFailed(e) == [kind |-> "ReceiveFailed", err |-> e]
InstanceNameTooLong == [kind |-> "InstanceNameTooLong"]
ProtocolError(e) == [kind |-> "ProtocolError", err |-> e]

\* Result<T, E> and Option<T>
Ok(v) == [ok |-> TRUE, value |-> v]
Err(e) == [ok |-> FALSE, err |-> e]
None == <<>>
Some(v) == <<v>>

\* The ways a call ends that are not a returned value.
Pending == [kind |-> "Pending"]
Panic(why) == [kind |-> "Panic", why |-> why]

(***************************************************************************)
(* info.rs: SplitIteratorWithPosition over string.split(';')               *)
(***************************************************************************)
\* str::find for a one-byte character, from index i on: the first index
\* holding c, 0 when there is none.
Find(s, c, i) ==
    IF \A j \in i..Len(s) : s[j] # c THEN 0
    ELSE CHOOSE j \in i..Len(s) : s[j] = c /\ \A k \in i..(j - 1) : s[k] # c

\* The iterator is (start of the unread remainder, finished, position).
SplitIteratorWithPosition_new == [start |-> 1, finished |-> FALSE, position |-> 0]

\* std::str::Split::next: the text up to the next ';', or the whole
\* remainder (possibly empty) once, and None after that.  j is where the
\* next ';' is (0: nowhere).
Split_at(str, it, j) ==
    IF j = 0
    THEN [some |-> TRUE,
          x |-> SubSeq(str, it.start, Len(str)),
          it |-> [it EXCEPT !.start = Len(str) + 1, !.finished = TRUE]]
    ELSE [some |-> TRUE,
          x |-> SubSeq(str, it.start, j - 1),
          it |-> [it EXCEPT !.start = j + 1]]

Split_next(str, it) ==
    IF it.finished THEN [some |-> FALSE, it |-> it]
    ELSE Split_at(str, it, Find(str, SEMICOLON, it.start))


\* Mutant: the delimiter is not counted.
PositionAfter_without_delimiter(position, x) == position + Len(x)

\* self.position += x.len() + 1
PositionAfter(position, x) == position + Len(x) + 1

\* The match on self.inner.next(), r.
SplitIteratorWithPosition_match(position, r) ==
    IF r.some
    THEN [some |-> TRUE, x |-> r.x,
          it |-> [r.it EXCEPT !.position = PositionAfter(position, r.x)]]
    ELSE [some |-> FALSE, it |-> r.it]

SplitIteratorWithPosition_next(str, it) ==
    SplitIteratorWithPosition_match(it.position, Split_next(str, it))

\* Mutant: the count stops short of the last delimiter.
string_position_short(it) == it.position - 1

string_position(it) == it.position

\* expect_next and consume_next on what iterator.next() gave, r.
expect_token(r, identifier, field) ==
    IF ~r.some
    THEN [ok |-> FALSE, err |-> UnexpectedToken(Identifier(field), EndOfMessage)]
    ELSE IF r.x = identifier
    THEN [ok |-> TRUE, it |-> r.it]
    ELSE [ok |-> FALSE, err |-> UnexpectedToken(Identifier(field), Literal(r.x))]

expect_next(str, it, identifier, field) ==
    expect_token(SplitIteratorWithPosition_next(str, it), identifier, field)

\* Mutant: a missing value reported as a missing identifier.
consume_token_as_identifier(r, value_name) ==
    IF ~r.some
    THEN [ok |-> FALSE, err |-> UnexpectedToken(Identifier(value_name), EndOfMessage)]
    ELSE [ok |-> TRUE, x |-> r.x, it |-> r.it]

consume_token(r, value_name) ==
    IF ~r.some
    THEN [ok |-> FALSE, err |-> UnexpectedToken(ValueOf(value_name), EndOfMessage)]
    ELSE [ok |-> TRUE, x |-> r.x, it |-> r.it]

consume_next(str, it, value_name) ==
    consume_token(SplitIteratorWithPosition_next(str, it), value_name)

(***************************************************************************)
(* str::parse::<u16>(): an optional '+', then one or more decimal digits,  *)
(* accumulated with checked arithmetic.                                    *)
(***************************************************************************)
IsDigit(c) == c >= DIGIT_0 /\ c <= DIGIT_9

RECURSIVE ParseDigits(_, _, _)
ParseDigits(s, i, acc) ==
    IF i > Len(s) THEN [ok |-> TRUE, value |-> acc]
    ELSE IF ~IsDigit(s[i]) THEN [ok |-> FALSE]
    ELSE LET v == acc * 10 + (s[i] - DIGIT_0) IN
         IF v > U16_MAX THEN [ok |-> FALSE] ELSE ParseDigits(s, i + 1, v)

parse_u16(s) ==
    IF Len(s) = 0 THEN [ok |-> FALSE]
    ELSE IF Len(s) = 1 /\ s[1] \in {PLUS, MINUS} THEN [ok |-> FALSE]
    ELSE IF s[1] = PLUS THEN ParseDigits(s, 2, 0)
    ELSE ParseDigits(s, 1, 0)

(***************************************************************************)
(* The "via" value: machine name up to the first ',', then the rest split  *)
(* on ',' and ':' and read as consecutive (nic, port) pairs.               *)
(***************************************************************************)
RECURSIVE SplitAny(_, _, _, _)
SplitAny(s, seps, i, cur) ==
    IF i > Len(s) THEN <<cur>>
    ELSE IF s[i] \in seps THEN <<cur>> \o SplitAny(s, seps, i + 1, <<>>)
    ELSE SplitAny(s, seps, i + 1, Append(cur, s[i]))

RECURSIVE via_addresses(_, _, _)

\* Mutant: a nic left without a port is dropped instead of refused.
via_addresses_dropping(parts, k, addresses) ==
    IF k + 1 > Len(parts) THEN [ok |-> TRUE, addresses |-> addresses]
    ELSE via_addresses(parts, k + 2,
                       Append(addresses, [nic |-> parts[k], port |-> parts[k + 1]]))

via_addresses(parts, k, addresses) ==
    IF k > Len(parts) THEN [ok |-> TRUE, addresses |-> addresses]
    ELSE IF k + 1 > Len(parts) THEN [ok |-> FALSE]
    ELSE via_addresses(parts, k + 2,
                       Append(addresses, [nic |-> parts[k], port |-> parts[k + 1]]))

\* The value split at comma_idx, the place of its first ',' (0: none).
parse_via_pairs(parameters, machine_name, a) ==
    IF ~a.ok
    THEN Err(UnexpectedToken(ViaParameters, Literal(parameters)))
    ELSE Ok([machine_name |-> machine_name, addresses |-> a.addresses])

parse_via_at(parameters, comma_idx) ==
    IF comma_idx = 0
    THEN Err(UnexpectedToken(ViaParameters, Literal(parameters)))
    ELSE parse_via_pairs(
             parameters,
             SubSeq(parameters, 1, comma_idx - 1),
             via_addresses(SplitAny(SubSeq(parameters, comma_idx + 1, Len(parameters)),
                                    {COMMA, COLON}, 1, <<>>),
                           1, <<>>))

parse_via(parameters) == parse_via_at(parameters, Find(parameters, COMMA, 1))

(***************************************************************************)
(* info.rs: parse_instance_info                                            *)
(***************************************************************************)
NoEndpoints ==
    [np_info |-> None, tcp_info |-> None, via_info |-> None, rpc_info |-> None,
     spx_info |-> None, adsp_info |-> None, bv_info |-> None]

\* The operators below follow the statements of parse_instance_info.  A
\* statement `let v = f(..)?;` is an operator that computes f(..) and hands
\* it, as v, to the operator named ..._with, which is the rest of the code:
\* it returns the error of v, or goes on with the value.

\* Mutant: a field that is already set keeps its first value.
single_value_first_wins(v, eps, slot, key) ==
    IF ~v.ok THEN [ok |-> FALSE, err |-> v.err]
    ELSE [ok |-> TRUE, it |-> v.it,
          eps |-> IF eps[slot] # None THEN eps
                  ELSE [eps EXCEPT ![slot] = Some([k \in {key} |-> v.x])]]

\* A section whose value is one token, stored as it is (np, rpc, spx, adsp).
single_value_with(v, eps, slot, key) ==
    IF ~v.ok THEN [ok |-> FALSE, err |-> v.err]
    ELSE [ok |-> TRUE, it |-> v.it,
          eps |-> [eps EXCEPT ![slot] = Some([k \in {key} |-> v.x])]]

single_value_endpoint(str, it, eps, value_name, slot, key) ==
    single_value_with(consume_next(str, it, value_name), eps, slot, key)

tcp_port_with(v, port, eps) ==
    IF ~port.ok
    THEN [ok |-> FALSE, err |-> UnexpectedToken(TcpPort, Literal(v.x))]
    ELSE [ok |-> TRUE, it |-> v.it,
          eps |-> [eps EXCEPT !.tcp_info = Some([port |-> port.value])]]

tcp_with(v, eps) ==
    IF ~v.ok THEN [ok |-> FALSE, err |-> v.err]
    ELSE tcp_port_with(v, parse_u16(v.x), eps)

tcp_endpoint(str, it, eps) == tcp_with(consume_next(str, it, "TcpPort"), eps)

via_parsed_with(v, via, eps) ==
    IF ~via.ok THEN [ok |-> FALSE, err |-> via.err]
    ELSE [ok |-> TRUE, it |-> v.it,
          eps |-> [eps EXCEPT !.via_info = Some(via.value)]]

via_with(v, eps) ==
    IF ~v.ok THEN [ok |-> FALSE, err |-> v.err]
    ELSE via_parsed_with(v, parse_via(v.x), eps)

via_endpoint(str, it, eps) == via_with(consume_next(str, it, "ViaMachineName"), eps)

bv_org_with(item_name, group_name, org_name, eps) ==
    IF ~org_name.ok THEN [ok |-> FALSE, err |-> org_name.err]
    ELSE [ok |-> TRUE, it |-> org_name.it,
          eps |-> [eps EXCEPT !.bv_info =
                       Some([item_name |-> item_name.x,
                             group_name |-> group_name.x,
                             org_name |-> org_name.x])]]

bv_group_with(str, item_name, group_name, eps) ==
    IF ~group_name.ok THEN [ok |-> FALSE, err |-> group_name.err]
    ELSE bv_org_with(item_name, group_name,
                     consume_next(str, group_name.it, "BvOrgName"), eps)

bv_item_with(str, item_name, eps) ==
    IF ~item_name.ok THEN [ok |-> FALSE, err |-> item_name.err]
    ELSE bv_group_with(str, item_name,
                       consume_next(str, item_name.it, "BvGroupName"), eps)

bv_endpoint(str, it, eps) ==
    bv_item_with(str, consume_next(str, it, "BvItemName"), eps)


\* Mutant: a token that opens no known section is skipped.
endpoint_section_skipping(str, it, eps, x) ==
    IF x = LitNp
    THEN single_value_endpoint(str, it, eps, "NamedPipeName", "np_info", "name")
    ELSE IF x = LitTcp THEN tcp_endpoint(str, it, eps)
    ELSE IF x = LitVia THEN via_endpoint(str, it, eps)
    ELSE IF x = LitRpc
    THEN single_value_endpoint(str, it, eps, "RpcComputerName", "rpc_info", "computer_name")
    ELSE IF x = LitSpx
    THEN single_value_endpoint(str, it, eps, "SpxServiceName", "spx_info", "service_name")
    ELSE IF x = LitAdsp
    THEN single_value_endpoint(str, it, eps, "AppleTalkObjectName", "adsp_info", "object_name")
    ELSE IF x = LitBv THEN bv_endpoint(str, it, eps)
    ELSE [ok |-> TRUE, it |-> it, eps |-> eps]

\* One arm of the match on iterator.next() for a token that opens a section.
endpoint_section(str, it, eps, x) ==
    IF x = LitNp
    THEN single_value_endpoint(str, it, eps, "NamedPipeName", "np_info", "name")
    ELSE IF x = LitTcp THEN tcp_endpoint(str, it, eps)
    ELSE IF x = LitVia THEN via_endpoint(str, it, eps)
    ELSE IF x = LitRpc
    THEN single_value_endpoint(str, it, eps, "RpcComputerName", "rpc_info", "computer_name")
    ELSE IF x = LitSpx
    THEN single_value_endpoint(str, it, eps, "SpxServiceName", "spx_info", "service_name")
    ELSE IF x = LitAdsp
    THEN single_value_endpoint(str, it, eps, "AppleTalkObjectName", "adsp_info", "object_name")
    ELSE IF x = LitBv THEN bv_endpoint(str, it, eps)
    ELSE [ok |-> FALSE,
          err |-> UnexpectedToken(EndpointIdentifierOrSemicolon, Literal(x))]

\* The loop over the supported protocols: ends at the empty token.
RECURSIVE endpoint_loop(_, _, _)
endpoint_section_with(str, s) ==
    IF ~s.ok THEN s ELSE endpoint_loop(str, s.it, s.eps)

endpoint_token_with(str, r, eps) ==
    IF ~r.some
    THEN [ok |-> FALSE,
          err |-> UnexpectedToken(EndpointIdentifierOrSemicolon, EndOfMessage)]
    ELSE IF r.x = <<>> THEN [ok |-> TRUE, it |-> r.it, eps |-> eps]
    ELSE endpoint_section_with(str, endpoint_section(str, r.it, eps, r.x))

endpoint_loop(str, it, eps) ==
    endpoint_token_with(str, SplitIteratorWithPosition_next(str, it), eps)

parse_is_clustered(is_clustered_str) ==
    IF is_clustered_str = LitYes THEN Ok(TRUE)
    ELSE IF is_clustered_str = LitNo THEN Ok(FALSE)
    ELSE Err(UnexpectedToken(ValueOf("IsClustered"), Literal(is_clustered_str)))

\* The header: hdr holds the values read so far.
endpoints_with(addr, hdr, l) ==
    IF ~l.ok THEN Err(l.err)
    ELSE Ok([info |-> [addr |-> addr,
                       server_name |-> hdr.server_name,
                       instance_name |-> hdr.instance_name,
                       is_clustered |-> hdr.is_clustered,
                       version |-> hdr.version,
                       np_info |-> l.eps.np_info,
                       tcp_info |-> l.eps.tcp_info,
                       via_info |-> l.eps.via_info,
                       rpc_info |-> l.eps.rpc_info,
                       spx_info |-> l.eps.spx_info,
                       adsp_info |-> l.eps.adsp_info,
                       bv_info |-> l.eps.bv_info],
             consumed |-> string_position(l.it)])

version_with(addr, str, hdr, version) ==
    IF ~version.ok THEN Err(version.err)
    ELSE endpoints_with(addr, [hdr EXCEPT !.version = version.x],
                        endpoint_loop(str, version.it, NoEndpoints))

version_id_with(addr, str, hdr, e) ==
    IF ~e.ok THEN Err(e.err)
    ELSE version_with(addr, str, hdr, consume_next(str, e.it, "Version"))

is_clustered_with(addr, str, hdr, is_clustered_str, is_clustered) ==
    IF ~is_clustered.ok THEN Err(is_clustered.err)
    ELSE version_id_with(addr, str, [hdr EXCEPT !.is_clustered = is_clustered.value],
                         expect_next(str, is_clustered_str.it, LitVersion, "Version"))

is_clustered_str_with(addr, str, hdr, is_clustered_str) ==
    IF ~is_clustered_str.ok THEN Err(is_clustered_str.err)
    ELSE is_clustered_with(addr, str, hdr, is_clustered_str,
                           parse_is_clustered(is_clustered_str.x))

is_clustered_id_with(addr, str, hdr, e) ==
    IF ~e.ok THEN Err(e.err)
    ELSE is_clustered_str_with(addr, str, hdr, consume_next(str, e.it, "IsClustered"))

instance_name_with(addr, str, hdr, inst_name) ==
    IF ~inst_name.ok THEN Err(inst_name.err)
    ELSE is_clustered_id_with(addr, str, [hdr EXCEPT !.instance_name = inst_name.x],
                              expect_next(str, inst_name.it, LitIsClustered, "IsClustered"))

instance_name_id_with(addr, str, hdr, e) ==
    IF ~e.ok THEN Err(e.err)
    ELSE instance_name_with(addr, str, hdr, consume_next(str, e.it, "InstanceName"))

server_name_with(addr, str, hdr, server_name) ==
    IF ~server_name.ok THEN Err(server_name.err)
    ELSE instance_name_id_with(addr, str, [hdr EXCEPT !.server_name = server_name.x],
                               expect_next(str, server_name.it, LitInstanceName, "InstanceName"))

server_name_id_with(addr, str, hdr, e) ==
    IF ~e.ok THEN Err(e.err)
    ELSE server_name_with(addr, str, hdr, consume_next(str, e.it, "ServerName"))

NoHeader == [server_name |-> <<>>, instance_name |-> <<>>, is_clustered |-> FALSE,
             version |-> <<>>]

parse_instance_info(addr, str) ==
    server_name_id_with(addr, str, NoHeader,
                        expect_next(str, SplitIteratorWithPosition_new,
                                    LitServerName, "ServerName"))

(***************************************************************************)
(* std::str::from_utf8: whether the bytes are well-formed UTF-8            *)
(***************************************************************************)
\* Bytes by the part they can play in a well-formed sequence: the length
\* of the character a lead byte opens (0: no lead byte), and the range the
\* byte after a lead byte has to lie in.
Utf8Width(b) ==
    IF b < 128 THEN 1
    ELSE IF b >= 194 /\ b <= 223 THEN 2
    ELSE IF b >= 224 /\ b <= 239 THEN 3
    ELSE IF b >= 240 /\ b <= 244 THEN 4
    ELSE 0
IsCont(b) == b >= 128 /\ b <= 191
SecondMin(lead) == IF lead = 224 THEN 160 ELSE IF lead = 240 THEN 144 ELSE 128
SecondMax(lead) == IF lead = 237 THEN 159 ELSE IF lead = 244 THEN 143 ELSE 191

\* Every lead byte is followed by the continuation bytes it announces, and
\* every continuation byte belongs to a lead byte at most three places back.
utf8_valid(s) ==
    \A i \in 1..Len(s) :
        IF IsCont(s[i])
        THEN \E k \in 1..3 :
                /\ i - k >= 1
                /\ Utf8Width(s[i - k]) > k
                /\ \A m \in (i - k + 1)..(i - 1) : IsCont(s[m])
        ELSE /\ Utf8Width(s[i]) > 0
             /\ i + Utf8Width(s[i]) - 1 <= Len(s)
             /\ \A m \in (i + 1)..(i + Utf8Width(s[i]) - 1) : IsCont(s[m])
             /\ Utf8Width(s[i]) > 1 =>
                    /\ s[i + 1] >= SecondMin(s[i])
                    /\ s[i + 1] <= SecondMax(s[i])

(***************************************************************************)
(* Addresses and buffers                                                   *)
(***************************************************************************)
SocketAddr(ip, port) == [ip |-> ip, port |-> port]

\* IpAddr::V4(Ipv4Addr::UNSPECIFIED) or IpAddr::V6(Ipv6Addr::UNSPECIFIED)
local_addr(remote) ==
    IF remote.family = "V4" THEN [family |-> "V4", host |-> "0.0.0.0"]
    ELSE [family |-> "V6", host |-> "::"]

\* [0u8; n]
ZeroBuffer(n) == [i \in 1..n |-> 0]

\* A zeroed receive buffer of n bytes after recv wrote the bytes d into it.
RecvBuffer(d, n) == [i \in 1..n |-> IF i <= Len(d) THEN d[i] ELSE 0]

\* u16::from_le_bytes([lo, hi])
u16_from_le_bytes(lo, hi) == lo + 256 * hi

\* a + b on u16: an overflow panics where overflow checks are compiled in
\* (debug profile) and wraps where they are not (release profile).
u16_add(a, b, overflow_checks) ==
    IF a + b <= U16_MAX THEN Ok(a + b)
    ELSE IF overflow_checks THEN Err("attempt to add with overflow")
    ELSE Ok((a + b) % (U16_MAX + 1))

(***************************************************************************)
(* browse_instance.rs: browse_instance_inner                               *)
(***************************************************************************)

\* Mutant: the limit taken one byte too high.
instance_name_too_long_off_by_one(name) == Len(name) > MAX_INSTANCE_NAME_LEN + 1

instance_name_too_long(name) == Len(name) > MAX_INSTANCE_NAME_LEN


\* Mutant: the slice sent stops at the last byte of the name.
instance_request_unterminated(name) ==
    <<CLNT_UCAST_INST>> \o name

\* The request: the slice &buffer[0..buffer_len] handed to send_to.
instance_request(name) ==
    LET zeroed == ZeroBuffer(1 + MAX_INSTANCE_NAME_LEN + 1)
        buffer == [i \in 1..Len(zeroed) |->
                      IF i = 1 THEN CLNT_UCAST_INST
                      ELSE IF i <= 1 + Len(name) THEN name[i - 1]
                      ELSE zeroed[i]]
        buffer_len == 2 + Len(name)
    IN SubSeq(buffer, 1, buffer_len)


\* Mutant: the length of the header is checked before the identifier.
instance_header_error_length_first(buffer, bytes_received) ==
    IF bytes_received < 1
    THEN Some(UnexpectedToken(MessageIdentifier(SVR_RESP), EndOfMessage))
    ELSE IF bytes_received < 3
    THEN Some(UnexpectedToken(MessageLength, EndOfMessage))
    ELSE IF buffer[1] # SVR_RESP
    THEN Some(UnexpectedToken(MessageIdentifier(SVR_RESP), MessageIdentifier(buffer[1])))
    ELSE None

\* The header checks on the received bytes, in source order; the first that
\* fails gives Some(error), None when all pass.
instance_header_error(buffer, bytes_received) ==
    IF bytes_received < 1
    THEN Some(UnexpectedToken(MessageIdentifier(SVR_RESP), EndOfMessage))
    ELSE IF buffer[1] # SVR_RESP
    THEN Some(UnexpectedToken(MessageIdentifier(SVR_RESP), MessageIdentifier(buffer[1])))
    ELSE IF bytes_received < 3
    THEN Some(UnexpectedToken(MessageLength, EndOfMessage))
    ELSE None

\* resp_data_len as usize != bytes_received - 3
instance_length_mismatch(resp_data_len, bytes_received) ==
    resp_data_len # bytes_received - 3

\* &buffer[(3 + consumed)..]: the slice runs to the end of the buffer, and
\* a start beyond the end of the buffer panics.
instance_extraneous(buffer, consumed) ==
    IF 3 + consumed > Len(buffer)
    THEN Panic("range start index out of range for slice")
    ELSE ProtocolError(ExtraneousData(SubSeq(buffer, 3 + consumed + 1, Len(buffer))))

\* The record parsed, r, against the length of the text.
instance_parsed_with(buffer, as_str, r) ==
    IF ~r.ok THEN ProtocolError(r.err)
    ELSE IF r.value.consumed # Len(as_str)
    THEN instance_extraneous(buffer, r.value.consumed)
    ELSE [kind |-> "Ok", value |-> r.value.info]

\* The payload decoded as text (unwrap panics when it is not UTF-8) and
\* parsed as one record.
instance_text_with(addr, buffer, bytes) ==
    IF ~utf8_valid(bytes) THEN Panic("called Result::unwrap() on an Err value")
    ELSE instance_parsed_with(buffer, bytes, parse_instance_info(addr, bytes))

instance_payload(addr, buffer, bytes_received) ==
    instance_text_with(addr, buffer, SubSeq(buffer, 4, bytes_received))

\* The error for a length field that does not match.
instance_mismatch_with(bytes_received, header) ==
    IF ~header.ok THEN Panic(header.err)
    ELSE ProtocolError(LengthMismatch(bytes_received, header.value))

\* The length field, resp_data_len, against the bytes received.
instance_length_with(addr, buffer, bytes_received, resp_data_len, overflow_checks) ==
    IF instance_length_mismatch(resp_data_len, bytes_received)
    THEN instance_mismatch_with(bytes_received, u16_add(resp_data_len, 3, overflow_checks))
    ELSE instance_payload(addr, buffer, bytes_received)

instance_framed(addr, buffer, bytes_received, overflow_checks) ==
    instance_length_with(addr, buffer, bytes_received,
                         u16_from_le_bytes(buffer[2], buffer[3]), overflow_checks)

instance_header_with(addr, buffer, bytes_received, overflow_checks, header_error) ==
    IF header_error # None THEN ProtocolError(header_error[1])
    ELSE instance_framed(addr, buffer, bytes_received, overflow_checks)

\* Everything after recv returned: the outcome of the call.
instance_checked(addr, buffer, bytes_received, overflow_checks) ==
    instance_header_with(addr, buffer, bytes_received, overflow_checks,
                         instance_header_error(buffer, bytes_received))

instance_response(addr, d, overflow_checks) ==
    instance_checked(addr, RecvBuffer(d, INSTANCE_RECV_BUFFER_LEN), Len(d), overflow_checks)

(***************************************************************************)
(* browse_instance_dac.rs: browse_instance_dac_inner                       *)
(***************************************************************************)
dac_name_too_long(name) == Len(name) > MAX_INSTANCE_NAME_LEN


\* Mutant: the slice sent stops at the last byte of the name.
dac_request_unterminated(name) ==
    <<CLNT_UCAST_DAC, VERSION>> \o name

\* The request: the slice &buffer[0..buffer_len] handed to send.
dac_request(name) ==
    LET zeroed == ZeroBuffer(2 + MAX_INSTANCE_NAME_LEN + 1)
        buffer == [i \in 1..Len(zeroed) |->
                      IF i = 1 THEN CLNT_UCAST_DAC
                      ELSE IF i = 2 THEN VERSION
                      ELSE IF i <= 2 + Len(name) THEN name[i - 2]
                      ELSE zeroed[i]]
        buffer_len == 3 + Len(name)
    IN SubSeq(buffer, 1, buffer_len)

dac_header_error(buffer, bytes_received) ==
    IF bytes_received < 1
    THEN Some(UnexpectedToken(MessageIdentifier(SVR_RESP), EndOfMessage))
    ELSE IF buffer[1] # SVR_RESP
    THEN Some(UnexpectedToken(MessageIdentifier(SVR_RESP), MessageIdentifier(buffer[1])))
    ELSE IF bytes_received < 3
    THEN Some(UnexpectedToken(MessageLength, EndOfMessage))
    ELSE None


\* Mutant: the length field compared with the bytes received.
dac_length_mismatch_received(packet_size, buffer, bytes_received) ==
    packet_size # bytes_received

\* packet_size != buffer.len()
dac_length_mismatch(packet_size, buffer, bytes_received) ==
    packet_size # Len(buffer)


\* Mutant: the port read big-endian.
dac_body_big_endian(buffer, bytes_received) ==
    IF bytes_received < 4
    THEN ProtocolError(UnexpectedToken(DacVersion(VERSION), EndOfMessage))
    ELSE IF buffer[4] # VERSION
    THEN ProtocolError(UnexpectedToken(DacVersion(VERSION), DacVersion(buffer[4])))
    ELSE IF bytes_received < 6
    THEN ProtocolError(UnexpectedToken(DacPort, EndOfMessage))
    ELSE [kind |-> "Ok",
          value |-> [port |-> u16_from_le_bytes(buffer[6], buffer[5])]]

\* Mutant: the whole frame is asked for before the version is looked at.
dac_body_port_first(buffer, bytes_received) ==
    IF bytes_received < 6
    THEN ProtocolError(UnexpectedToken(DacPort, EndOfMessage))
    ELSE IF buffer[4] # VERSION
    THEN ProtocolError(UnexpectedToken(DacVersion(VERSION), DacVersion(buffer[4])))
    ELSE [kind |-> "Ok",
          value |-> [port |-> u16_from_le_bytes(buffer[5], buffer[6])]]

\* The checks after the length check, in source order.
dac_body(buffer, bytes_received) ==
    IF bytes_received < 4
    THEN ProtocolError(UnexpectedToken(DacVersion(VERSION), EndOfMessage))
    ELSE IF buffer[4] # VERSION
    THEN ProtocolError(UnexpectedToken(DacVersion(VERSION), DacVersion(buffer[4])))
    ELSE IF bytes_received < 6
    THEN ProtocolError(UnexpectedToken(DacPort, EndOfMessage))
    ELSE [kind |-> "Ok",
          value |-> [port |-> u16_from_le_bytes(buffer[5], buffer[6])]]

dac_length_with(buffer, bytes_received, packet_size) ==
    IF dac_length_mismatch(packet_size, buffer, bytes_received)
    THEN ProtocolError(LengthMismatch(bytes_received, packet_size))
    ELSE dac_body(buffer, bytes_received)

dac_framed(buffer, bytes_received) ==
    dac_length_with(buffer, bytes_received, u16_from_le_bytes(buffer[2], buffer[3]))

dac_header_with(buffer, bytes_received, header_error) ==
    IF header_error # None THEN ProtocolError(header_error[1])
    ELSE dac_framed(buffer, bytes_received)

\* Everything after recv returned: the outcome of the call.
dac_checked(buffer, bytes_received) ==
    dac_header_with(buffer, bytes_received, dac_header_error(buffer, bytes_received))

dac_response(d) == dac_checked(RecvBuffer(d, DAC_RECV_BUFFER_LEN), Len(d))

(***************************************************************************)
(* Bounds and the inputs drawn within them                                 *)
(***************************************************************************)
MaxNameLen == 34        \* instance names of 0..MaxNameLen bytes
MaxSections == 2        \* endpoint sections per generated record

\* "SQLEXPRESS", repeated as far as the length asks.
NameAlphabet == <<83, 81, 76, 69, 88, 80, 82, 69, 83, 83>>
NameOfLen(n) == [i \in 1..n |-> NameAlphabet[((i - 1) % Len(NameAlphabet)) + 1]]
Names == {NameOfLen(n) : n \in 0..MaxNameLen}

RemoteAddrs == {[family |-> "V4", host |-> "127.0.0.1"],
                [family |-> "V6", host |-> "::1"]}

TransportErrors == {"io_error"}

\* Sequences over S of length 0..n.
RECURSIVE SeqsUpTo(_, _)
SeqsUpTo(S, n) ==
    IF n = 0 THEN {<<>>}
    ELSE LET shorter == SeqsUpTo(S, n - 1) IN
         shorter \cup {Append(q, x) : q \in {r \in shorter : Len(r) = n - 1}, x \in S}

\* Header token lists: (identifier, value) four times.
TxtH1 == <<72, 49>>
TxtSqlExpress == <<83, 81, 76, 69, 88, 80, 82, 69, 83, 83>>
TxtVersion15 == <<49, 53, 46, 48, 46, 50, 48, 48, 48, 46, 53>>
TxtI == <<73>>
TxtVersion9 == <<57, 46, 48, 48>>
TxtX == <<88>>
TxtLowerYes == <<121, 101, 115>>

HeaderOf(server, inst, clustered, version) ==
    <<LitServerName, server, LitInstanceName, inst,
      LitIsClustered, clustered, LitVersion, version>>

WellFormedHeaders ==
    {HeaderOf(TxtH1, TxtSqlExpress, LitNo, TxtVersion15),
     HeaderOf(<<>>, TxtI, LitYes, TxtVersion9)}

\* A well-formed header with the token at one place replaced.
DeviatingHeaders ==
    {[HeaderOf(TxtH1, TxtSqlExpress, LitNo, TxtVersion15) EXCEPT ![k] = TxtX]
        : k \in {1, 3, 5, 6, 7}}
    \cup {HeaderOf(TxtH1, TxtSqlExpress, TxtLowerYes, TxtVersion15)}

\* Endpoint sections by name: the tokens of each and its endpoint type.
SectionTokens(name) ==
    CASE name = "np"        -> <<LitNp, <<112, 105, 112, 101>>>>
      [] name = "np_sql"    -> <<LitNp, <<115, 113, 108>>>>
      [] name = "np_empty"  -> <<LitNp, <<>>>>
      [] name = "np_tcp"    -> <<LitNp, LitTcp>>
      [] name = "tcp"       -> <<LitTcp, <<49, 52, 51, 51>>>>
      [] name = "tcp_max"   -> <<LitTcp, <<54, 53, 53, 51, 53>>>>
      [] name = "via"       -> <<LitVia, <<109, 44, 97, 58, 49>>>>
      [] name = "via_two"   -> <<LitVia, <<109, 44, 97, 58, 49, 44, 98, 58, 50>>>>
      [] name = "rpc"       -> <<LitRpc, <<82, 49>>>>
      [] name = "spx"       -> <<LitSpx, <<83, 49>>>>
      [] name = "adsp"      -> <<LitAdsp, <<79, 49>>>>
      [] name = "bv"        -> <<LitBv, <<105, 116, 101, 109>>, <<103, 114, 112>>,
                                 <<111, 114, 103>>>>
      [] name = "tcp_zero"  -> <<LitTcp, <<48>>>>
      [] name = "rpc_b"     -> <<LitRpc, <<82, 50>>>>
      [] name = "spx_b"     -> <<LitSpx, <<83, 50>>>>
      [] name = "adsp_b"    -> <<LitAdsp, <<79, 50>>>>
      [] name = "bv_b"      -> <<LitBv, <<105, 50>>, <<>>, <<111, 50>>>>
      [] name = "tcp_zeros" -> <<LitTcp, <<48, 48, 48, 56, 48>>>>
      [] name = "tcp_plus"  -> <<LitTcp, <<43, 56, 48>>>>
      [] name = "tcp_big"   -> <<LitTcp, <<54, 53, 53, 51, 54>>>>
      [] name = "tcp_empty" -> <<LitTcp, <<>>>>
      [] name = "tcp_sign"  -> <<LitTcp, <<43>>>>
      [] name = "tcp_minus" -> <<LitTcp, <<45, 49>>>>
      [] name = "tcp_alpha" -> <<LitTcp, <<56, 97>>>>
      [] name = "via_bare"  -> <<LitVia, <<109>>>>
      [] name = "via_odd"   -> <<LitVia, <<109, 44, 97>>>>
      [] name = "via_comma" -> <<LitVia, <<109, 44, 97, 44, 98>>>>
      [] name = "via_none"  -> <<LitVia, <<109, 44>>>>
      [] name = "via_three" -> <<LitVia, <<109, 44, 97, 58, 49, 58, 98>>>>
      [] name = "via_colons" -> <<LitVia, <<109, 44, 97, 58, 49, 58, 98, 58, 50>>>>
      [] name = "via_empty" -> <<LitVia, <<44, 58>>>>
      [] name = "via_colon" -> <<LitVia, <<109, 58, 97, 44, 49>>>>
      [] name = "unknown"   -> <<<<120, 120>>>>
      [] name = "upper_tcp" -> <<<<84, 67, 80>>>>
      [] name = "version"   -> <<LitVersion>>

SectionKind(name) ==
    CASE name \in {"np", "np_sql", "np_empty", "np_tcp"} -> "np"
      [] name \in {"tcp", "tcp_max", "tcp_zero", "tcp_zeros", "tcp_plus", "tcp_big",
                   "tcp_empty", "tcp_sign", "tcp_minus", "tcp_alpha"} -> "tcp"
      [] name \in {"via", "via_two", "via_bare", "via_odd", "via_comma", "via_none",
                   "via_three", "via_colons", "via_empty", "via_colon"} -> "via"
      [] name \in {"rpc", "rpc_b"} -> "rpc"
      [] name \in {"spx", "spx_b"} -> "spx"
      [] name \in {"adsp", "adsp_b"} -> "adsp"
      [] name \in {"bv", "bv_b"} -> "bv"
      [] OTHER -> "other"

\* Sections written as the grammar of the record asks.
WellFormedSections ==
    {"np", "np_sql", "np_empty", "np_tcp", "tcp", "tcp_zero", "tcp_max", "via",
     "via_two", "rpc", "spx", "adsp", "bv"}
\* Sections that leave the grammar, or sit on its edge.
EdgeSections ==
    {"tcp_zeros", "tcp_plus", "tcp_big", "tcp_empty", "tcp_sign",
     "tcp_minus", "tcp_alpha", "via_bare", "via_odd", "via_comma", "via_none",
     "via_three", "via_colons", "via_empty", "via_colon", "unknown", "upper_tcp",
     "version"}

\* What follows the last section.
EndingTokens(ending) ==
    CASE ending = "term"   -> <<<<>>, <<>>>>        \* ";;" closes the text
      [] ending = "single" -> <<<<>>>>              \* a single ";" closes it
      [] ending = "none"   -> <<>>                  \* the last value ends it
      [] ending = "extra"  -> <<<<>>, TxtX>>        \* ";;" and one more byte
      [] ending = "second" ->                       \* ";;" and a second record
             <<<<>>>> \o HeaderOf(<<>>, TxtI, LitYes, TxtVersion9)
                      \o SectionTokens("tcp") \o <<<<>>, <<>>>>
      [] ending = "second_np" ->                    \* the same, another record
             <<<<>>>> \o HeaderOf(TxtH1, TxtSqlExpress, LitNo, TxtVersion15)
                      \o SectionTokens("bv") \o SectionTokens("np_empty") \o <<<<>>, <<>>>>
Endings == {"term", "single", "none", "extra", "second", "second_np"}

RECURSIVE SectionsTokens(_, _)
SectionsTokens(sections, k) ==
    IF k > Len(sections) THEN <<>>
    ELSE SectionTokens(sections[k]) \o SectionsTokens(sections, k + 1)

\* The tokens of a shape; cut = k > 0 keeps the first k of them only.
\* The tokens string.split(';') gives for the text of a shape: what the
\* shape lists, and one empty token for the empty text of a shape that
\* lists nothing.
AllTokens(sh) ==
    IF sh.header = <<>> /\ sh.sections = <<>> /\ EndingTokens(sh.ending) = <<>>
    THEN <<<<>>>>
    ELSE sh.header \o SectionsTokens(sh.sections, 1) \o EndingTokens(sh.ending)
ShapeTokens(sh) ==
    IF sh.cut = 0 THEN AllTokens(sh) ELSE SubSeq(AllTokens(sh), 1, sh.cut)

\* The text of a token list: the tokens with ';' between them.
RECURSIVE Join(_, _)
Join(tokens, k) ==
    IF k > Len(tokens) THEN <<>>
    ELSE IF k = Len(tokens) THEN tokens[k]
    ELSE tokens[k] \o <<SEMICOLON>> \o Join(tokens, k + 1)
Render(sh) == Join(ShapeTokens(sh), 1)

Shape(header, sections, ending, cut) ==
    [header |-> header, sections |-> sections, ending |-> ending, cut |-> cut]

\* Records of well-formed sections under every ending.
GrammarShapes ==
    {Shape(h, ss, e, 0) : h \in WellFormedHeaders,
                          ss \in SeqsUpTo(WellFormedSections, MaxSections),
                          e \in Endings}
\* Well-formed sections, then one section from the edge of the grammar.
EdgeShapes ==
    {Shape(h, Append(ss, x), "term", 0) :
        h \in WellFormedHeaders,
        ss \in SeqsUpTo(WellFormedSections, MaxSections - 1),
        x \in EdgeSections}
\* A record cut short after each of its tokens.
CutShapes ==
    UNION {{Shape(h, ss, "term", k) : k \in 1..(Len(h) + Len(SectionsTokens(ss, 1)) + 1)}
            : h \in WellFormedHeaders,
              ss \in {<<>>, <<"np">>, <<"bv">>, <<"tcp", "via">>, <<"rpc">>, <<"spx">>,
                      <<"adsp", "np_empty">>}}
\* Well-formed sections that differ in value from the ones above.
SecondSections == {"rpc_b", "spx_b", "adsp_b", "bv_b"}
\* Records in which a section type comes back, with other sections between.
RepeatedSections ==
    {<<"tcp", "np", "tcp_max">>, <<"bv", "via", "bv_b">>, <<"bv_b", "bv">>,
     <<"np", "rpc", "np_sql", "rpc_b">>, <<"adsp_b", "spx", "adsp", "spx_b">>,
     <<"via_two", "via", "tcp_zero", "via_two">>, <<"rpc_b", "rpc", "rpc_b">>,
     <<"spx", "spx_b">>, <<"adsp", "adsp_b">>}
RepeatingShapes ==
    {Shape(h, ss, e, 0) : h \in WellFormedHeaders, ss \in RepeatedSections,
                          e \in {"term", "second"}}
\* A record whose header departs from the grammar at one token.
DeviatingShapes ==
    {Shape(h, ss, "term", 0) : h \in DeviatingHeaders, ss \in {<<>>, <<"tcp">>}}

\* Nothing written: the empty text, which splits into one empty token.
NoShape == Shape(<<>>, <<>>, "none", 0)

Shapes ==
    GrammarShapes \cup EdgeShapes \cup CutShapes \cup RepeatingShapes
    \cup DeviatingShapes \cup {NoShape}

NotParsed == [kind |-> "NotParsed"]

\* Datagrams the single-instance query may receive: too short for a header,
\* and payloads framed with a right or a wrong identifier and length field.
\* A server name of n bytes, and the records that fill the receive buffer:
\* a payload of 1024 bytes closed by a single ";" and one closed by ";;".
Padding(n) == [i \in 1..n |-> 72]
FullBufferShapes ==
    {Shape(HeaderOf(Padding(969), TxtI, LitNo, TxtVersion9), <<>>, "single", 0),
     Shape(HeaderOf(Padding(968), TxtI, LitNo, TxtVersion9), <<>>, "term", 0)}
QueryShapes ==
    {Shape(HeaderOf(TxtH1, TxtSqlExpress, LitNo, TxtVersion15), <<"tcp">>, e, 0)
        : e \in Endings}
    \cup {Shape(HeaderOf(<<>>, TxtI, LitYes, TxtVersion9), <<>>, "term", 0),
          Shape(HeaderOf(TxtH1, TxtSqlExpress, LitNo, TxtVersion15), <<"tcp_big">>, "term", 0),
          Shape(HeaderOf(TxtH1, TxtSqlExpress, LitNo, TxtVersion15), <<"np">>, "term", 3)}
InstancePayloads ==
    {Render(sh) : sh \in QueryShapes \cup FullBufferShapes}
    \cup {<<>>, TxtX, <<195, 169>>, <<255>>, <<83, 255, 59>>}

LenField(n) == <<n % 256, (n \div 256) % 256>>
LenFields(n) ==
    {LenField(n), LenField(n + 1), LenField(n + 3), LenField(0), LenField(n + 256),
     LenField(65532), LenField(65533), LenField(65535)}

ShortDatagrams ==
    {<<>>, <<5>>, <<4>>, <<0>>, <<5, 0>>, <<5, 1>>, <<4, 0>>, <<4, 0, 0>>,
     <<4, 9, 9, 88>>}
InstanceDatagrams ==
    ShortDatagrams
    \cup UNION {{<<5>> \o f \o p : f \in LenFields(Len(p))} : p \in InstancePayloads}
    \cup {<<4>> \o LenField(Len(p)) \o p : p \in InstancePayloads}

\* Datagrams the DAC query may receive: every prefix of six bytes, each
\* drawn from a few values for its place.
DacByteChoices ==
    <<{5, 4}, {6, 3, 4, 5}, {0, 1}, {1, 2}, {57, 0}, {5, 255}>>
RECURSIVE DacPrefixes(_)
DacPrefixes(n) ==
    IF n = 0 THEN {<<>>}
    ELSE {Append(q, b) : q \in DacPrefixes(n - 1), b \in DacByteChoices[n]}
DacDatagrams == UNION {DacPrefixes(n) : n \in 0..DAC_RECV_BUFFER_LEN}

(***************************************************************************)
(* The queries as state machines: one action per stretch of code between   *)
(* two suspension points (.await).  A transport call is recorded in calls  *)
(* when it is issued; the next action is its completion, Ok or Err.        *)
(***************************************************************************)
Call(name, arg) == [call |-> name, arg |-> arg]
remote == SocketAddr(remote_addr, BROWSER_PORT)

QueryUnchanged ==
    UNCHANGED <<op, remote_addr, instance_name, shape, string, parsed, offset, yielded>>

\* browse_instance_inner, from entry to the bind call.
Instance_Start ==
    /\ op = "instance" /\ pc = "start"
    /\ IF instance_name_too_long(instance_name)
       THEN /\ result' = InstanceNameTooLong
            /\ pc' = "done"
            /\ UNCHANGED calls
       ELSE /\ calls' = Append(calls, Call("bind", SocketAddr(local_addr(remote_addr), 0)))
            /\ pc' = "bind"
            /\ UNCHANGED result
    /\ UNCHANGED datagram
    /\ QueryUnchanged

\* bind completed: its error is returned, or connect is called.
Instance_Bind ==
    /\ op = "instance" /\ pc = "bind"
    /\ \/ \E e \in TransportErrors :
            /\ result' = BindFailed(e)
            /\ pc' = "done"
            /\ UNCHANGED calls
       \/ /\ calls' = Append(calls, Call("connect", remote))
          /\ pc' = "connect"
          /\ UNCHANGED result
    /\ UNCHANGED datagram
    /\ QueryUnchanged

\* connect completed: its error is returned, or the request is sent.
Instance_Connect ==
    /\ op = "instance" /\ pc = "connect"
    /\ \/ \E e \in TransportErrors :
            /\ result' = ConnectFailed(remote, e)
            /\ pc' = "done"
            /\ UNCHANGED calls
       \/ /\ calls' = Append(calls, Call("send_to",
                                         [buf |-> instance_request(instance_name),
                                          addr |-> remote]))
          /\ pc' = "send"
          /\ UNCHANGED result
    /\ UNCHANGED datagram
    /\ QueryUnchanged

\* Mutant: the error of send_to tagged as the error of connect.
Instance_Send_tagged_connect ==
    /\ op = "instance" /\ pc = "send"
    /\ \/ \E e \in TransportErrors :
            /\ result' = ConnectFailed(remote, e)
            /\ pc' = "done"
            /\ UNCHANGED calls
       \/ /\ calls' = Append(calls, Call("recv", INSTANCE_RECV_BUFFER_LEN))
          /\ pc' = "recv"
          /\ UNCHANGED result
    /\ UNCHANGED datagram
    /\ QueryUnchanged

\* send_to completed: its error is returned, or recv is called.
Instance_Send ==
    /\ op = "instance" /\ pc = "send"
    /\ \/ \E e \in TransportErrors :
            /\ result' = SendFailed(remote, e)
            /\ pc' = "done"
            /\ UNCHANGED calls
       \/ /\ calls' = Append(calls, Call("recv", INSTANCE_RECV_BUFFER_LEN))
          /\ pc' = "recv"
          /\ UNCHANGED result
    /\ UNCHANGED datagram
    /\ QueryUnchanged

\* recv completed: its error is returned, or the response is decoded.
Instance_Recv ==
    /\ op = "instance" /\ pc = "recv"
    /\ \/ \E e \in TransportErrors :
            /\ result' = ReceiveFailed(e)
            /\ UNCHANGED datagram
       \/ \E d \in InstanceDatagrams, overflow_checks \in BOOLEAN :
            /\ datagram' = d
            /\ result' = instance_response(remote_addr, d, overflow_checks)
    /\ pc' = "done"
    /\ UNCHANGED calls
    /\ QueryUnchanged

\* browse_instance_dac_inner, from entry to the bind call.
Dac_Start ==
    /\ op = "dac" /\ pc = "start"
    /\ IF dac_name_too_long(instance_name)
       THEN /\ result' = InstanceNameTooLong
            /\ pc' = "done"
            /\ UNCHANGED calls
       ELSE /\ calls' = Append(calls, Call("bind", SocketAddr(local_addr(remote_addr), 0)))
            /\ pc' = "bind"
            /\ UNCHANGED result
    /\ UNCHANGED datagram
    /\ QueryUnchanged

Dac_Bind ==
    /\ op = "dac" /\ pc = "bind"
    /\ \/ \E e \in TransportErrors :
            /\ result' = BindFailed(e)
            /\ pc' = "done"
            /\ UNCHANGED calls
       \/ /\ calls' = Append(calls, Call("connect", remote))
          /\ pc' = "connect"
          /\ UNCHANGED result
    /\ UNCHANGED datagram
    /\ QueryUnchanged

Dac_Connect ==
    /\ op = "dac" /\ pc = "connect"
    /\ \/ \E e \in TransportErrors :
            /\ result' = ConnectFailed(remote, e)
            /\ pc' = "done"
            /\ UNCHANGED calls
       \/ /\ calls' = Append(calls, Call("send", [buf |-> dac_request(instance_name)]))
          /\ pc' = "send"
          /\ UNCHANGED result
    /\ UNCHANGED datagram
    /\ QueryUnchanged

\* Mutant: a failed send is tried once more before recv is called.
Dac_Send_retrying ==
    /\ op = "dac" /\ pc = "send"
    /\ \/ \E e \in TransportErrors :
            /\ calls' = Append(calls, Call("send", [buf |-> dac_request(instance_name)]))
            /\ pc' = "send"
            /\ UNCHANGED result
       \/ /\ calls' = Append(calls, Call("recv", DAC_RECV_BUFFER_LEN))
          /\ pc' = "recv"
          /\ UNCHANGED result
    /\ UNCHANGED datagram
    /\ QueryUnchanged

Dac_Send ==
    /\ op = "dac" /\ pc = "send"
    /\ \/ \E e \in TransportErrors :
            /\ result' = SendFailed(remote, e)
            /\ pc' = "done"
            /\ UNCHANGED calls
       \/ /\ calls' = Append(calls, Call("recv", DAC_RECV_BUFFER_LEN))
          /\ pc' = "recv"
          /\ UNCHANGED result
    /\ UNCHANGED datagram
    /\ QueryUnchanged

Dac_Recv ==
    /\ op = "dac" /\ pc = "recv"
    /\ \/ \E e \in TransportErrors :
            /\ result' = ReceiveFailed(e)
            /\ UNCHANGED datagram
       \/ \E d \in DacDatagrams :
            /\ datagram' = d
            /\ result' = dac_response(d)
    /\ pc' = "done"
    /\ UNCHANGED calls
    /\ QueryUnchanged

Init ==
    /\ op \in {"instance", "dac"}
    /\ remote_addr \in RemoteAddrs
    /\ instance_name \in Names
    /\ pc = "start"
    /\ calls = <<>>
    /\ datagram = <<>>
    /\ result = Pending
    /\ shape = NoShape
    /\ string = <<>>
    /\ parsed = NotParsed
    /\ offset = 0
    /\ yielded = <<>>

Next ==
    \/ Instance_Start \/ Instance_Bind \/ Instance_Connect
    \/ Instance_Send \/ Instance_Recv
    \/ Dac_Start \/ Dac_Bind \/ Dac_Connect \/ Dac_Send \/ Dac_Recv

Spec == Init /\ [][Next]_vars

(***************************************************************************)
(* parse_instance_info alone, applied to the text of every shape           *)
(***************************************************************************)
ParseInit ==
    /\ op = "parse"
    /\ remote_addr \in RemoteAddrs
    /\ shape \in Shapes
    /\ string = Render(shape)
    /\ pc = "start"
    /\ parsed = NotParsed
    /\ instance_name = <<>>
    /\ calls = <<>>
    /\ datagram = <<>>
    /\ result = Pending
    /\ offset = 0
    /\ yielded = <<>>

Parse ==
    /\ op = "parse" /\ pc = "start"
    /\ parsed' = parse_instance_info(remote_addr, string)
    /\ pc' = "done"
    /\ UNCHANGED <<op, remote_addr, instance_name, calls, datagram, result,
                   shape, string, offset, yielded>>

\* The text from an offset on: &string[offset..]
str_from(str, start) == SubSeq(str, start + 1, Len(str))

\* The caller keeps the record it got and calls parse_instance_info again,
\* on the text that starts where the last call stopped consuming.
ParseRest ==
    /\ op = "parse" /\ pc \in {"done", "rest"}
    /\ parsed.ok
    /\ offset + parsed.value.consumed < Len(string)
    /\ yielded' = Append(yielded, parsed.value.info)
    /\ offset' = offset + parsed.value.consumed
    /\ parsed' = parse_instance_info(remote_addr,
                                     str_from(string, offset + parsed.value.consumed))
    /\ pc' = "rest"
    /\ UNCHANGED <<op, remote_addr, instance_name, calls, datagram, result,
                   shape, string>>

ParseNext == Parse \/ ParseRest

ParseSpec == ParseInit /\ [][ParseNext]_vars

(***************************************************************************)
(* Properties                                                              *)
(***************************************************************************)
\* A query that got a datagram from recv and has returned (or panicked).
Received(o) ==
    /\ op = o /\ pc = "done"
    /\ Len(calls) = 4
    /\ result.kind # "ReceiveFailed"

IsLengthMismatch(r) == r.kind = "ProtocolError" /\ r.err.kind = "LengthMismatch"

\* The send call of the run, if one was made.
SendCalls(name) == {i \in 1..Len(calls) : calls[i].call = name}

\* C1: in both queries a name of 0..32 bytes never gives InstanceNameTooLong,
\* and a name of 33 bytes or more gives InstanceNameTooLong with no
\* transport call made at any time.
C1_NameLengthChecked ==
    op \in {"instance", "dac"} =>
        /\ Len(instance_name) <= 32 => result # InstanceNameTooLong
        /\ Len(instance_name) >= 33 =>
              /\ calls = <<>>
              /\ pc \in {"start", "done"}
              /\ pc = "done" => result = InstanceNameTooLong

C1_Witness ==
    /\ op = "dac" /\ pc = "done"
    /\ Len(instance_name) = 33
    /\ result = InstanceNameTooLong
    /\ calls = <<>>

\* C2 as stated: the datagram sent by the single-instance query is the byte
\* 0x04 followed by the bytes of the name and nothing else.
C2_Original ==
    op = "instance" =>
        \A i \in SendCalls("send_to") : calls[i].arg.buf = <<4>> \o instance_name

\* C2 amended: the datagram sent by the single-instance query is the byte
\* 0x04, the bytes of the name, and one terminating zero byte: 2 + len(n)
\* bytes.
C2_RequestTerminated ==
    op = "instance" =>
        \A i \in SendCalls("send_to") :
            /\ calls[i].arg.buf = <<4>> \o instance_name \o <<0>>
            /\ Len(calls[i].arg.buf) = 2 + Len(instance_name)

C2_Witness ==
    /\ op = "instance"
    /\ instance_name = <<83, 81, 76, 69, 88, 80, 82, 69, 83, 83>>
    /\ \E i \in SendCalls("send_to") :
          calls[i].arg.buf = <<4, 83, 81, 76, 69, 88, 80, 82, 69, 83, 83, 0>>

\* C3 as stated: the datagram sent by the DAC query is the bytes 0x0F, 0x01
\* followed by the bytes of the name and nothing else.
C3_Original ==
    op = "dac" =>
        \A i \in SendCalls("send") : calls[i].arg.buf = <<15, 1>> \o instance_name

\* C3 amended: the datagram sent by the DAC query is the bytes 0x0F, 0x01,
\* the bytes of the name, and one terminating zero byte: 3 + len(n) bytes.
C3_DacRequestTerminated ==
    op = "dac" =>
        \A i \in SendCalls("send") :
            /\ calls[i].arg.buf = <<15, 1>> \o instance_name \o <<0>>
            /\ Len(calls[i].arg.buf) = 3 + Len(instance_name)

C3_Witness ==
    /\ op = "dac"
    /\ Len(instance_name) = 32
    /\ \E i \in SendCalls("send") : Len(calls[i].arg.buf) = 35

\* C4: in both queries the header checks run in a fixed order and the first
\* that fails decides the error: no byte, then a first byte other than
\* 0x05 (whatever the length), then fewer than 3 bytes; the length field
\* is compared only for a datagram that passes all three.
C4_HeaderCheckOrder ==
    \A o \in {"instance", "dac"} :
        Received(o) =>
            /\ Len(datagram) = 0 =>
                  result = ProtocolError(UnexpectedToken(MessageIdentifier(5), EndOfMessage))
            /\ (Len(datagram) >= 1 /\ datagram[1] # 5) =>
                  result = ProtocolError(UnexpectedToken(MessageIdentifier(5),
                                                         MessageIdentifier(datagram[1])))
            /\ (Len(datagram) \in 1..2 /\ datagram[1] = 5) =>
                  result = ProtocolError(UnexpectedToken(MessageLength, EndOfMessage))
            /\ IsLengthMismatch(result) => (Len(datagram) >= 3 /\ datagram[1] = 5)

C4_Witness ==
    /\ Received("instance")
    /\ Len(datagram) = 4 /\ datagram[1] = 4
    /\ u16_from_le_bytes(datagram[2], datagram[3]) # 1
    /\ result = ProtocolError(UnexpectedToken(MessageIdentifier(5), MessageIdentifier(4)))

\* C5 as stated: in the single-instance query, for a datagram of at least 3
\* bytes that starts with 0x05, the result is LengthMismatch if and only if
\* the declared length differs from the bytes received less 3.
C5_Original ==
    (Received("instance") /\ Len(datagram) >= 3 /\ datagram[1] = 5) =>
        (IsLengthMismatch(result)
            <=> datagram[2] + 256 * datagram[3] # Len(datagram) - 3)

C7_DacDecoding ==
    Received("dac") =>
        /\ result.kind = "Ok" <=>
              (/\ Len(datagram) = 6
               /\ SubSeq(datagram, 1, 4) = <<5, 6, 0, 1>>)
        /\ result.kind = "Ok" =>
              result.value = [port |-> datagram[5] + 256 * datagram[6]]
        /\ (/\ Len(datagram) = 6
            /\ SubSeq(datagram, 1, 3) = <<5, 6, 0>>
            /\ datagram[4] # 1) =>
              result = ProtocolError(UnexpectedToken(DacVersion(1), DacVersion(datagram[4])))

C7_Witness ==
    /\ Received("dac")
    /\ datagram = <<5, 6, 0, 1, 57, 5>>
    /\ result = [kind |-> "Ok", value |-> [port |-> 1337]]

\* C8: in the DAC query a strict prefix, r bytes long, of a valid response
\* gives UnexpectedToken with EndOfMessage found and the first missing field
\* expected: the identifier for r = 0, the length for r in 1..2, the
\* version for r = 3, the port for r in 4..5.
C8_DacTruncation ==
    (/\ Received("dac")
     /\ Len(datagram) <= 5
     /\ \A i \in 1..Len(datagram) : i <= 4 => datagram[i] = <<5, 6, 0, 1>>[i]) =>
        result = ProtocolError(UnexpectedToken(
                     CASE Len(datagram) = 0 -> MessageIdentifier(5)
                       [] Len(datagram) \in 1..2 -> MessageLength
                       [] Len(datagram) = 3 -> DacVersion(1)
                       [] Len(datagram) \in 4..5 -> DacPort,
                     EndOfMessage))

C8_Witness ==
    /\ Received("dac")
    /\ datagram = <<5, 6, 0>>
    /\ result = ProtocolError(UnexpectedToken(DacVersion(1), EndOfMessage))

\* The sections of a shape by endpoint type, shapes whose sections all stand
\* in the text, and shapes inside the grammar.
KindsOf(sections) == {SectionKind(sections[i]) : i \in 1..Len(sections)}
SectionsWritten(sh) ==
    sh.cut = 0 \/ sh.cut >= Len(sh.header) + Len(SectionsTokens(sh.sections, 1))
InGrammar(sh) ==
    /\ sh.header \in WellFormedHeaders
    /\ \A i \in 1..Len(sh.sections) : sh.sections[i] \in WellFormedSections
    /\ sh.cut = 0

\* C9: for a text of the four header fields in order, any sequence of
\* well-formed endpoint sections and the empty token of a trailing ";;",
\* parse_instance_info succeeds, returns the header values (is_clustered
\* true exactly for Yes) and consumed equal to the length of the text.
C9_WellFormedRecordParses ==
    (op = "parse" /\ pc = "done" /\ InGrammar(shape) /\ shape.ending = "term") =>
        /\ parsed.ok
        /\ parsed.value.consumed = Len(string)
        /\ parsed.value.info.server_name = shape.header[2]
        /\ parsed.value.info.instance_name = shape.header[4]
        /\ parsed.value.info.is_clustered = (shape.header[6] = <<89, 101, 115>>)
        /\ parsed.value.info.version = shape.header[8]

C9_Witness ==
    /\ op = "parse" /\ pc = "done"
    /\ shape.ending = "term" /\ shape.cut = 0
    /\ shape.sections = <<"via_two", "bv">>
    /\ shape.header[6] = <<89, 101, 115>>
    /\ parsed.ok
    /\ parsed.value.info.is_clustered
    /\ parsed.value.consumed = Len(string)
    /\ Len(string) > 60

\* C10: when parse_instance_info succeeds, each of the seven optional fields
\* is present if and only if a section of its type was read, its identifier
\* in endpoint position (an identifier read as a value opens nothing); and
\* a token in endpoint position that opens no section and is not empty makes
\* the parse fail with UnexpectedToken(EndpointIdentifierOrSemicolon,
\* Literal(token)).
OptionalField(info, kind) ==
    CASE kind = "np" -> info.np_info
      [] kind = "tcp" -> info.tcp_info
      [] kind = "via" -> info.via_info
      [] kind = "rpc" -> info.rpc_info
      [] kind = "spx" -> info.spx_info
      [] kind = "adsp" -> info.adsp_info
      [] kind = "bv" -> info.bv_info
EndpointKinds == {"np", "tcp", "via", "rpc", "spx", "adsp", "bv"}

C10_OptionalFieldsFollowSections ==
    (op = "parse" /\ pc = "done") =>
        /\ (parsed.ok /\ SectionsWritten(shape)) =>
              \A kind \in EndpointKinds :
                  OptionalField(parsed.value.info, kind) # None
                      <=> kind \in KindsOf(shape.sections)
        /\ (/\ shape.header \in WellFormedHeaders
            /\ shape.cut = 0
            /\ shape.sections # <<>>
            /\ \A i \in 1..(Len(shape.sections) - 1) :
                  shape.sections[i] \in WellFormedSections
            /\ SectionKind(shape.sections[Len(shape.sections)]) = "other") =>
              parsed = Err(UnexpectedToken(
                           EndpointIdentifierOrSemicolon,
                           Literal(SectionTokens(shape.sections[Len(shape.sections)])[1])))

C10_Witness ==
    /\ op = "parse" /\ pc = "done"
    /\ parsed.ok
    /\ shape.sections = <<"np_tcp", "bv">>
    /\ parsed.value.info.np_info = Some([name |-> <<116, 99, 112>>])
    /\ parsed.value.info.bv_info # None
    /\ parsed.value.info.tcp_info = None
    /\ parsed.value.info.via_info = None

\* The position the parser stands at after k tokens of a record whose
\* tokens are all as the grammar asks: what it expects to read next.
HeaderFields == <<"ServerName", "InstanceName", "IsClustered", "Version">>
SectionValueFields(kind) ==
    CASE kind = "np" -> <<"NamedPipeName">>
      [] kind = "tcp" -> <<"TcpPort">>
      [] kind = "via" -> <<"ViaMachineName">>
      [] kind = "rpc" -> <<"RpcComputerName">>
      [] kind = "spx" -> <<"SpxServiceName">>
      [] kind = "adsp" -> <<"AppleTalkObjectName">>
      [] kind = "bv" -> <<"BvItemName", "BvGroupName", "BvOrgName">>
RECURSIVE SectionPosition(_, _, _)
SectionPosition(sections, i, rest) ==
    IF i > Len(sections) \/ rest = 0
    THEN [tok |-> "EndpointIdentifierOrSemicolon"]
    ELSE IF rest < Len(SectionTokens(sections[i]))
    THEN [tok |-> "ValueOf", field |-> SectionValueFields(SectionKind(sections[i]))[rest]]
    ELSE SectionPosition(sections, i + 1, rest - Len(SectionTokens(sections[i])))
PositionAfterTokens(sh, k) ==
    IF k >= 8 THEN SectionPosition(sh.sections, 1, k - 8)
    ELSE IF k % 2 = 0 THEN [tok |-> "Identifier", field |-> HeaderFields[(k \div 2) + 1]]
    ELSE [tok |-> "ValueOf", field |-> HeaderFields[(k + 1) \div 2]]
\* The first place where a header departs from the well-formed one.
FirstDeviation(h) ==
    CHOOSE k \in 1..8 :
        /\ h[k] # HeaderOf(TxtH1, TxtSqlExpress, LitNo, TxtVersion15)[k]
        /\ \A j \in 1..(k - 1) : h[j] = HeaderOf(TxtH1, TxtSqlExpress, LitNo, TxtVersion15)[j]

\* C11: when the tokens of a record end at some position, the parse fails
\* with UnexpectedToken whose expected token names that position and whose
\* found token is EndOfMessage: Identifier(F) or ValueOf(F) inside the
\* header, ValueOf(F) inside an endpoint section (each of the three bv
\* values has its own), EndpointIdentifierOrSemicolon between sections; and
\* when a header token departs from what is expected there, the expected
\* token names its position and the found token is the literal read.
C11_ErrorNamesPosition ==
    (op = "parse" /\ pc = "done") =>
        /\ (/\ shape.cut > 0
            /\ shape.cut <= Len(shape.header) + Len(SectionsTokens(shape.sections, 1))) =>
              parsed = [ok |-> FALSE,
                        err |-> [kind |-> "UnexpectedToken",
                                 expected |-> PositionAfterTokens(shape, shape.cut),
                                 found |-> [tok |-> "EndOfMessage"]]]
        /\ shape.header \in DeviatingHeaders =>
              parsed = [ok |-> FALSE,
                        err |-> [kind |-> "UnexpectedToken",
                                 expected |-> PositionAfterTokens(
                                                  shape, FirstDeviation(shape.header) - 1),
                                 found |-> [tok |-> "Literal",
                                            s |-> shape.header[FirstDeviation(shape.header)]]]]
        /\ shape = NoShape =>
              parsed = [ok |-> FALSE,
                        err |-> [kind |-> "UnexpectedToken",
                                 expected |-> [tok |-> "Identifier", field |-> "ServerName"],
                                 found |-> [tok |-> "Literal", s |-> ShapeTokens(shape)[1]]]]

C11_Witness ==
    /\ op = "parse" /\ pc = "done"
    /\ shape.sections = <<"bv">> /\ shape.cut = 11
    /\ parsed = [ok |-> FALSE,
                 err |-> [kind |-> "UnexpectedToken",
                          expected |-> [tok |-> "ValueOf", field |-> "BvOrgName"],
                          found |-> [tok |-> "EndOfMessage"]]]

\* The two records of a shape that ends in a second record, each as a text
\* of its own.
FirstRecord(sh) == Render(Shape(sh.header, sh.sections, "term", 0))
SecondRecord(sh) == Join(Tail(EndingTokens(sh.ending)), 1)

\* C12: for two valid records R1 and R2, each ending in ";;", parsing the
\* text R1 R2 returns what parsing R1 alone returns, with consumed equal to
\* the length of R1, and parsing the same text from that offset on returns
\* what parsing R2 alone returns, with consumed equal to the length of R2;
\* the record of R1 is obtained first.
C12_ConcatenatedRecords ==
    (op = "parse" /\ InGrammar(shape) /\ shape.ending \in {"second", "second_np"}) =>
        /\ string = FirstRecord(shape) \o SecondRecord(shape)
        /\ pc = "done" =>
              /\ parsed = parse_instance_info(remote_addr, FirstRecord(shape))
              /\ parsed.ok
              /\ parsed.value.consumed = Len(FirstRecord(shape))
        /\ pc = "rest" =>
              /\ offset = Len(FirstRecord(shape))
              /\ yielded = <<parse_instance_info(remote_addr, FirstRecord(shape)).value.info>>
              /\ parsed = parse_instance_info(remote_addr, SecondRecord(shape))
              /\ parsed.ok
              /\ parsed.value.consumed = Len(SecondRecord(shape))
              /\ offset + parsed.value.consumed = Len(string)

C12_Witness ==
    /\ op = "parse" /\ pc = "rest"
    /\ shape.ending = "second" /\ shape.sections = <<"np", "via">>
    /\ Len(yielded) = 1
    /\ yielded[1].instance_name = TxtSqlExpress
    /\ yielded[1].tcp_info = None
    /\ parsed.ok
    /\ parsed.value.info.instance_name = TxtI
    /\ parsed.value.info.tcp_info = Some([port |-> 1433])
    /\ parsed.value.info.np_info = None
    /\ offset + parsed.value.consumed = Len(string)

\* A datagram with the identifier 0x05, the length of the payload in the
\* length field, and the payload.
Framed(payload) == <<5, Len(payload) % 256, Len(payload) \div 256>> \o payload

\* C13 as stated: in the single-instance query, a validly framed payload of
\* one complete record and k further bytes gives, for k >= 1, ExtraneousData
\* with exactly those k bytes, and for k = 0 the record.
C13_Original ==
    \A sh \in QueryShapes :
        (/\ Received("instance")
         /\ InGrammar(sh)
         /\ sh.ending \in {"term", "extra", "second", "second_np"}
         /\ datagram = Framed(Render(sh))) =>
            IF Len(Render(sh)) = Len(FirstRecord(sh))
            THEN result.kind = "Ok"
            ELSE result = ProtocolError(ExtraneousData(
                              str_from(Render(sh), Len(FirstRecord(sh)))))

\* C14 as stated: in the single-instance query, a validly framed response
\* whose payload is not text gives the protocol error InvalidUtf8 as a
\* returned error; the call does not abort.
C14_Original ==
    (/\ Received("instance")
     /\ \E payload \in {<<255>>, <<83, 255, 59>>} : datagram = Framed(payload)) =>
        /\ result.kind # "Panic"
        /\ result.kind = "ProtocolError"
        /\ result.err.kind = "InvalidUtf8"

\* The transport calls of a query in the order the code makes them.
CallOrder(o) ==
    IF o = "instance" THEN <<"bind", "connect", "send_to", "recv">>
    ELSE <<"bind", "connect", "send", "recv">>

\* C15: in both queries the transport calls made are bind, connect, send,
\* receive in that order, each at most once; once a call has failed, the
\* calls made are those up to the failed one and no other, and the query has
\* returned that failure.
C15_TransportCallOrder ==
    op \in {"instance", "dac"} =>
        /\ Len(calls) <= 4
        /\ \A i \in 1..Len(calls) : calls[i].call = CallOrder(op)[i]
        /\ result.kind = "BindFailed" => (Len(calls) = 1 /\ pc = "done")
        /\ result.kind = "ConnectFailed" => (Len(calls) = 2 /\ pc = "done")
        /\ result.kind = "SendFailed" => (Len(calls) = 3 /\ pc = "done")
        /\ result.kind = "ReceiveFailed" => (Len(calls) = 4 /\ pc = "done")
        /\ (pc = "done" /\ Len(calls) \in 1..3) =>
              result.kind \in {"BindFailed", "ConnectFailed", "SendFailed"}

C15_Witness ==
    /\ op = "dac" /\ pc = "done"
    /\ result.kind = "SendFailed"
    /\ Len(calls) = 3
    /\ calls[3].call = "send"

\* C16: in both queries the error returned names the call that failed: the
\* step that ends the query while bind is awaited returns BindFailed, while
\* connect is awaited ConnectFailed with the target address and port 1434,
\* while send is awaited SendFailed with the target address and port 1434,
\* and only the step that ends it while recv is awaited returns
\* ReceiveFailed or, when a datagram came, ProtocolError.
C16_ErrorNamesStage ==
    [][(op \in {"instance", "dac"} /\ pc # "done" /\ pc' = "done") =>
          /\ pc = "start" => result' = [kind |-> "InstanceNameTooLong"]
          /\ pc = "bind" => result'.kind = "BindFailed"
          /\ pc = "connect" =>
                /\ result'.kind = "ConnectFailed"
                /\ result'.addr = [ip |-> remote_addr, port |-> 1434]
          /\ pc = "send" =>
                /\ result'.kind = "SendFailed"
                /\ result'.addr = [ip |-> remote_addr, port |-> 1434]
          /\ pc = "recv" =>
                /\ result'.kind \notin {"BindFailed", "ConnectFailed", "SendFailed",
                                        "InstanceNameTooLong"}
                /\ result'.kind = "ReceiveFailed" => (datagram' = datagram /\ Len(calls) = 4)
          /\ result'.kind = "ProtocolError" => (pc = "recv" /\ Len(calls) = 4)]_vars

C16_Witness ==
    /\ op = "instance" /\ pc = "done"
    /\ remote_addr.family = "V6"
    /\ result.kind = "ConnectFailed"
    /\ result.addr = [ip |-> remote_addr, port |-> 1434]
    /\ Len(calls) = 2

\* C17 as stated: in the single-instance query, whenever the declared length
\* differs from the bytes received less 3, the result is LengthMismatch with
\* datagram = the bytes received and header = the declared length plus 3,
\* for every declared length 0..65535, with no wraparound and no abort.
C17_Original ==
    (/\ Received("instance")
     /\ Len(datagram) >= 3 /\ datagram[1] = 5
     /\ datagram[2] + 256 * datagram[3] # Len(datagram) - 3) =>
        result = ProtocolError(LengthMismatch(Len(datagram),
                                              datagram[2] + 256 * datagram[3] + 3))

\* A record of one section, written in full under a well-formed header.
OneSection(kind) ==
    /\ op = "parse" /\ pc = "done"
    /\ shape.header \in WellFormedHeaders
    /\ shape.cut = 0 /\ shape.ending = "term"
    /\ Len(shape.sections) = 1
    /\ SectionKind(shape.sections[1]) = kind
SectionValue == SectionTokens(shape.sections[1])[2]

\* The number a string of decimal digits writes.
RECURSIVE DecimalValue(_)
DecimalValue(s) ==
    IF s = <<>> THEN 0
    ELSE 10 * DecimalValue(SubSeq(s, 1, Len(s) - 1)) + (s[Len(s)] - 48)
IsDecimal(s) == s # <<>> /\ \A i \in 1..Len(s) : s[i] \in 48..57

\* C19 as stated: the value after "tcp" is accepted if and only if it is a
\* non-empty string of decimal digits whose value is in 0..65535, and then
\* tcp_info.port is that value; every other value x gives
\* UnexpectedToken(TcpPort, Literal(x)).
C19_Original ==
    OneSection("tcp") =>
        IF IsDecimal(SectionValue) /\ DecimalValue(SectionValue) <= 65535
        THEN /\ parsed.ok
             /\ parsed.value.info.tcp_info = <<[port |-> DecimalValue(SectionValue)]>>
        ELSE parsed = [ok |-> FALSE,
                       err |-> [kind |-> "UnexpectedToken",
                                expected |-> [tok |-> "TcpPort"],
                                found |-> [tok |-> "Literal", s |-> SectionValue]]]

\* The "via" value by its separators: the place of its first ',' (0: none),
\* and the ',' and ':' after that place, in order.
FirstComma(v) ==
    IF \E i \in 1..Len(v) : v[i] = 44
    THEN CHOOSE i \in 1..Len(v) : v[i] = 44 /\ \A j \in 1..(i - 1) : v[j] # 44
    ELSE 0
IsSeparator(b) == b \in {44, 58}
SeparatorsAfter(v, i) == SelectSeq(SubSeq(v, i + 1, Len(v)), IsSeparator)
\* machine "," (nic ":" port) ("," nic ":" port)*
InViaGrammar(v) ==
    /\ FirstComma(v) > 0
    /\ Len(SeparatorsAfter(v, FirstComma(v))) % 2 = 1
    /\ \A i \in 1..Len(SeparatorsAfter(v, FirstComma(v))) :
          SeparatorsAfter(v, FirstComma(v))[i] = IF i % 2 = 1 THEN 58 ELSE 44
ViaRejected ==
    parsed = [ok |-> FALSE,
              err |-> [kind |-> "UnexpectedToken",
                       expected |-> [tok |-> "ViaParameters"],
                       found |-> [tok |-> "Literal", s |-> SectionValue]]]

\* C20 as stated: a "via" value m,n1:p1,...,nk:pk gives machine_name m and
\* the addresses (n1,p1)..(nk,pk) in order; a value with no ',' or whose part
\* after the machine name does not split into complete pairs is rejected
\* with UnexpectedToken(ViaParameters, Literal(value)); and no value that
\* departs from machine "," (nic ":" port) ("," nic ":" port)* is accepted.
C20_Original ==
    OneSection("via") =>
        /\ InViaGrammar(SectionValue) => parsed.ok
        /\ ~InViaGrammar(SectionValue) => ViaRejected

\* C20 amended: a "via" value is accepted if and only if it contains a ','
\* and the part after the first ',' is cut by its ',' and ':' (either one,
\* in any order) into an even number of pieces; the machine name is the
\* text before the first ',' and the addresses are the pieces paired in
\* order, so m,n1:p1,...,nk:pk gives (n1,p1)..(nk,pk); every other value is
\* rejected with UnexpectedToken(ViaParameters, Literal(value)).
C20_ViaPairsBySeparators ==
    OneSection("via") =>
        /\ parsed.ok <=>
              (/\ FirstComma(SectionValue) > 0
               /\ Len(SeparatorsAfter(SectionValue, FirstComma(SectionValue))) % 2 = 1)
        /\ ~parsed.ok => ViaRejected
        /\ parsed.ok =>
              /\ parsed.value.info.via_info[1].machine_name
                    = SubSeq(SectionValue, 1, FirstComma(SectionValue) - 1)
              /\ 2 * Len(parsed.value.info.via_info[1].addresses)
                    = Len(SeparatorsAfter(SectionValue, FirstComma(SectionValue))) + 1
        /\ shape.sections = <<"via_two">> =>
              parsed.value.info.via_info
                  = <<[machine_name |-> <<109>>,
                       addresses |-> <<[nic |-> <<97>>, port |-> <<49>>],
                                       [nic |-> <<98>>, port |-> <<50>>]>>]>>
        /\ shape.sections = <<"via_comma">> =>
              parsed.value.info.via_info
                  = <<[machine_name |-> <<109>>,
                       addresses |-> <<[nic |-> <<97>>, port |-> <<98>>]>>]>>

C20_Witness ==
    /\ OneSection("via")
    /\ shape.sections = <<"via_colons">>
    /\ parsed.ok
    /\ parsed.value.info.via_info
          = <<[machine_name |-> <<109>>,
               addresses |-> <<[nic |-> <<97>>, port |-> <<49>>],
                               [nic |-> <<98>>, port |-> <<50>>]>>]>>

\* The field a well-formed section writes, from the text of the section.
SectionField(name) ==
    CASE SectionKind(name) = "np" -> <<[name |-> SectionTokens(name)[2]]>>
      [] SectionKind(name) = "tcp" -> <<[port |-> DecimalValue(SectionTokens(name)[2])]>>
      [] name = "via" ->
             <<[machine_name |-> <<109>>,
                addresses |-> <<[nic |-> <<97>>, port |-> <<49>>]>>]>>
      [] name = "via_two" ->
             <<[machine_name |-> <<109>>,
                addresses |-> <<[nic |-> <<97>>, port |-> <<49>>],
                                [nic |-> <<98>>, port |-> <<50>>]>>]>>
      [] SectionKind(name) = "rpc" -> <<[computer_name |-> SectionTokens(name)[2]]>>
      [] SectionKind(name) = "spx" -> <<[service_name |-> SectionTokens(name)[2]]>>
      [] SectionKind(name) = "adsp" -> <<[object_name |-> SectionTokens(name)[2]]>>
      [] SectionKind(name) = "bv" ->
             <<[item_name |-> SectionTokens(name)[2],
                group_name |-> SectionTokens(name)[3],
                org_name |-> SectionTokens(name)[4]]>>
\* The last section of a kind in a list of sections that has one.
LastOf(sections, kind) ==
    sections[CHOOSE i \in 1..Len(sections) :
                 /\ SectionKind(sections[i]) = kind
                 /\ \A j \in (i + 1)..Len(sections) : SectionKind(sections[j]) # kind]
HasRepeatedSection(sections) ==
    \E i, j \in 1..Len(sections) :
        i < j /\ SectionKind(sections[i]) = SectionKind(sections[j])

\* C21: when a section type occurs more than once in a record,
\* parse_instance_info succeeds, the field of that type holds the value of
\* its last occurrence, and every other field is what it is without the
\* earlier occurrences: the header values, the fields of the other sections
\* present, and nothing for the sections absent.
C21_LastSectionWins ==
    (/\ op = "parse" /\ pc = "done"
     /\ shape.header \in WellFormedHeaders
     /\ shape.cut = 0
     /\ \A i \in 1..Len(shape.sections) :
           shape.sections[i] \in WellFormedSections \cup SecondSections
     /\ shape.ending \in {"term", "second", "second_np", "extra"}
     /\ HasRepeatedSection(shape.sections)) =>
        /\ parsed.ok
        /\ \A kind \in EndpointKinds :
              OptionalField(parsed.value.info, kind)
                  = IF kind \in KindsOf(shape.sections)
                    THEN SectionField(LastOf(shape.sections, kind))
                    ELSE None
        /\ parsed.value.info.server_name = shape.header[2]
        /\ parsed.value.info.instance_name = shape.header[4]
        /\ parsed.value.info.is_clustered = (shape.header[6] = <<89, 101, 115>>)
        /\ parsed.value.info.version = shape.header[8]
        /\ parsed.value.info.addr = remote_addr

C21_Witness ==
    /\ op = "parse" /\ pc = "done"
    /\ shape.header \in WellFormedHeaders /\ shape.cut = 0
    /\ shape.sections = <<"np", "rpc", "np_sql", "rpc_b">>
    /\ shape.ending = "term"
    /\ parsed.ok
    /\ parsed.value.info.np_info = <<[name |-> SectionTokens("np_sql")[2]]>>
    /\ parsed.value.info.rpc_info = <<[computer_name |-> <<82, 50>>]>>
    /\ parsed.value.info.tcp_info = None

\* C22 as stated: whenever parse_instance_info succeeds on a text s, the
\* consumed count it returns is at most len(s), also when the record is
\* closed by a single ';' at the very end of s, so that s[consumed..] is a
\* remainder to continue from.
C22_Original ==
    (op = "parse" /\ pc \in {"done", "rest"} /\ parsed.ok) =>
        parsed.value.consumed <= Len(str_from(string, offset))

\* C23 as stated: in the single-instance query, for every received datagram
\* of 0..1027 bytes with a text payload, the index 3 + consumed does not
\* exceed the 1027 bytes of the receive buffer, so that the call returns Ok
\* or Err and does not abort on a slice out of range, also for a payload of
\* 1024 bytes whose record ends with a single ';'.
C23_Original ==
    (/\ Received("instance")
     /\ Len(datagram) <= INSTANCE_RECV_BUFFER_LEN
     /\ utf8_valid(SubSeq(datagram, 4, Len(datagram)))) =>
        result # Panic("range start index out of range for slice")

====
